---- MODULE Spec2Model ----
(***************************************************************************)
(* Model of VkVideoDecoder (vk_video_decoder/libs/VkVideoDecoder/           *)
(* VkVideoDecoder.cpp): the decode-session lifecycle (StartVideoSequence),  *)
(* the parameter-set graph and its pending queue (UpdatePictureParameters,  *)
(* FlushPictureParametersQueue, AddPictureParameters), the compiled         *)
(* VkParserVideoPictureParameters objects (Create / Update) and the         *)
(* per-picture submission (DecodePictureWithParameters).                    *)
(*                                                                         *)
(* assert() is modelled as the release build executes it: the statement    *)
(* after the assert runs.  lastOp.asserted records that an assert fired in  *)
(* the last call, i.e. that a debug build would have aborted in it.         *)
(***************************************************************************)
EXTENDS Integers, Sequences, FiniteSets, TLC

VARIABLES
    nodes,                      \* every StdVideoPictureParametersSet created so far, in arrival order
    pictureParametersQueue,     \* m_pictureParametersQueue: node handles, FIFO
    lastPictParamsQueue,        \* m_lastPictParamsQueue[itemType]: node handle or Null
    lastIdInQueue,              \* m_lastIdInQueue[itemType]
    objects,                    \* every VkParserVideoPictureParameters created so far, in creation order
    currentPictureParameters,   \* m_currentPictureParameters: object handle or Null
    currentId,                  \* VkParserVideoPictureParameters::m_currentId
    videoSession,               \* m_videoSession: a session record or NoSession
    resetDecoder,               \* m_resetDecoder
    numDecodeSurfaces,          \* m_numDecodeSurfaces
    videoFormat,                \* m_videoFormat: the persisted VkParserDetectedVideoFormat or NoFormat
    decodePicCount,             \* m_decodePicCount
    frameSlots,                 \* per picture index: frame-complete fence and submissions in flight
    lastOp,                     \* what the last exposed call did and returned; lastOp.asserted:
                                \* an assert() fired in it (a debug build would have aborted)
    halted,                     \* the decoder takes no further call: the process has crashed
                                \* (null dereference) or the decoder is deinitialized
    sessionsCreated,            \* number of NvVideoSession::Create calls so far
    seqStarts,                  \* number of StartVideoSequence calls so far
    hwFailures,                 \* number of failed hardware parameter calls so far
    decodesOnSession,           \* pictures submitted since the last NvVideoSession::Create
    policyHistory,              \* the GetNumDecodeSurfaces results of all StartVideoSequence calls so far
    bitstreamBuffersQueue,      \* m_decodeFramesData.GetBitstreamBuffersQueue(): the pool's nodes
    maxStreamBufferSize,        \* m_maxStreamBufferSize
    bitstreamBuffer,            \* the caller's bitstreamBuffer handle: a buffer or NoBuffer
    lastAcquire,                \* what the last GetBitstreamBuffer call did and returned
    policyIn,                   \* inputs of a stand-alone call of a function of the decoder
                                \* (GetNumDecodeSurfaces, the extent alignment, the barrier batch)
    policyOut,                  \* its result as a one-element sequence, or NoResult
    useSeparateOutputImages,    \* m_useSeparateOutputImages
    useLinearOutput             \* m_useLinearOutput

vars == << nodes, pictureParametersQueue, lastPictParamsQueue, lastIdInQueue, objects,
           currentPictureParameters, currentId, videoSession, resetDecoder,
           numDecodeSurfaces, videoFormat, decodePicCount, frameSlots, lastOp,
           halted, sessionsCreated, seqStarts, hwFailures, decodesOnSession, policyHistory,
           bitstreamBuffersQueue, maxStreamBufferSize, bitstreamBuffer, lastAcquire,
           policyIn, policyOut, useSeparateOutputImages, useLinearOutput >>

decoderVars == << nodes, pictureParametersQueue, lastPictParamsQueue, lastIdInQueue, objects,
                  currentPictureParameters, currentId, videoSession, resetDecoder,
                  numDecodeSurfaces, videoFormat, decodePicCount, frameSlots, lastOp,
                  halted, sessionsCreated, seqStarts, hwFailures, decodesOnSession,
                  policyHistory >>

policyVars == << policyIn, policyOut >>

\* set when the decoder is created and never changed
configVars == << useSeparateOutputImages, useLinearOutput >>

bitstreamVars == << bitstreamBuffersQueue, maxStreamBufferSize, bitstreamBuffer, lastAcquire >>

(***************************************************************************)
(* Bounds of the model.                                                    *)
(***************************************************************************)
MaxNodes == 3           \* parameter sets arriving in one run
MaxSeqStarts == 2       \* StartVideoSequence calls in one run
MaxDecodes == 2         \* submitted pictures in one run
MaxHwFailures == 1      \* failed vkCreate/vkUpdateVideoSessionParametersKHR calls in one run
MaxMinSurfaces == 12    \* minNumDecodeSurfaces of a stand-alone policy call ranges over 0..MaxMinSurfaces
MaxBufferSize == 2      \* requested bitstream buffer sizes range over 1..MaxBufferSize
MaxPoolNodes == 1       \* nodes the bitstream buffer pool takes before AddNodeToPool refuses

Null == 0
NoSession == [gen |-> 0]
NoFormat == [codec |-> "NONE"]
NoResult == << >>

Max(a, b) == IF a >= b THEN a ELSE b
Min(a, b) == IF a <= b THEN a ELSE b

(***************************************************************************)
(* 32-bit arithmetic.  A uint32 is kept as two 16-bit halves so that no    *)
(* intermediate value leaves the range of the model checker's integers.    *)
(***************************************************************************)
Two8 == 256
Two15 == 32768
Two16 == 65536

\* width * height as the uint32 product the C++ expression computes, as << high half, low half >>
Mul32(w, h) ==
    LET wh == w \div Two16
        wl == w % Two16
        hh == h \div Two16
        hl == h % Two16
        a  == wl \div Two8
        b  == wl % Two8
        t1 == a * hl
        lowPart == ((t1 % Two8) * Two8) + (b * hl)
        lo == lowPart % Two16
        carry == lowPart \div Two16
        cross == (((wh * hl) % Two16) + ((wl * hh) % Two16)) % Two16
        hi == ((t1 \div Two8) + carry + cross) % Two16
    IN  << hi, lo >>

\* (int)x for a uint32 x given as halves: two's complement
ToInt32(x) ==
    IF x[1] >= Two15 THEN (x[1] - Two16) * Two16 + x[2]
                     ELSE x[1] * Two16 + x[2]

(***************************************************************************)
(* VkVideoDecoder::GetNumDecodeSurfaces                                     *)
(***************************************************************************)
Codecs == {"H264", "H265", "NONE"}

maxLumaPS == 35651584
maxDpbPicBuf == 6
DefaultNumDecodeSurfaces == 8

\* int picSizeInSamplesY = (int)(width * height);
PicSizeInSamplesY(width, height) == ToInt32(Mul32(width, height))

\* the H.265 tier selection
MaxDpbSize(picSizeInSamplesY) ==
    IF picSizeInSamplesY <= maxLumaPS \div 4 THEN maxDpbPicBuf * 4
    ELSE IF picSizeInSamplesY <= maxLumaPS \div 2 THEN maxDpbPicBuf * 2
    ELSE IF picSizeInSamplesY <= (3 * maxLumaPS) \div 4 THEN (maxDpbPicBuf * 4) \div 3
    ELSE maxDpbPicBuf

GetNumDecodeSurfaces(codec, minNumDecodeSurfaces, width, height) ==
    IF codec = "H264" THEN minNumDecodeSurfaces + 4 + 4
    ELSE IF codec = "H265" THEN Min(MaxDpbSize(PicSizeInSamplesY(width, height)), 16) + 4
    ELSE DefaultNumDecodeSurfaces

(***************************************************************************)
(* The parameter-set graph: StdVideoPictureParametersSet nodes.            *)
(***************************************************************************)
ItemTypes == {"VPS", "SPS", "PPS"}
ParamIds == { 0, 1 }
NoParent == -1

\* VkParserVideoPictureParameters::MAX_VPS_IDS, MAX_SPS_IDS, MAX_PPS_IDS: the number of ids
\* of each kind (the values of the class declaration, which is not part of the source file)
MAX_VPS_IDS == 16
MAX_SPS_IDS == 32
MAX_PPS_IDS == 256

\* the number of ids of a kind
MaxIds(itemType) ==
    IF itemType = "VPS" THEN MAX_VPS_IDS
    ELSE IF itemType = "SPS" THEN MAX_SPS_IDS
    ELSE MAX_PPS_IDS

\* (uint32_t)nodeId < MAX_..._IDS
IdInRange(node) == node.id >= 0 /\ node.id < MaxIds(node.itemType)

\* assert(!"SPS ID is out of bounds"), assert(!"VPS ID is out of bounds"): the two range checks
\* UpdatePictureParameters makes; it makes none for a PPS
RangeAssertFails(node) == node.itemType \in { "SPS", "VPS" } /\ ~IdInRange(node)

\* the node StdVideoPictureParametersSet::Create returns
NewNode(itemType, id, parentId, updateSequenceCount) ==
    [ itemType |-> itemType,
      id |-> id,                                   \* the node's own id
      parentId |-> parentId,                       \* the id it references: SPS id of a PPS, VPS id of an SPS
      updateSequenceCount |-> updateSequenceCount,
      parent |-> Null,                             \* m_parent
      vkObjectOwner |-> Null,                      \* m_vkObjectOwner
      videoSession |-> 0,                          \* m_videoSession (generation of the session, 0 = none)
      compiled |-> "queued" ]                      \* "queued", "ok" (hardware call succeeded) or "failed"

\* GetSpsId(isNodeId): the own id of an SPS, the referenced id of a PPS
GetSpsId(node) == IF node.itemType = "SPS" THEN node.id ELSE node.parentId
\* GetVpsId(isNodeId): the own id of a VPS, the referenced id of an SPS
GetVpsId(node) == IF node.itemType = "VPS" THEN node.id ELSE node.parentId

NodeParentType(itemType) ==
    IF itemType = "PPS" THEN "SPS" ELSE IF itemType = "SPS" THEN "VPS" ELSE "INVALID"
NodeChildType(itemType) ==
    IF itemType = "VPS" THEN "SPS" ELSE IF itemType = "SPS" THEN "PPS" ELSE "INVALID"

\* the m_parent the switch of UpdatePictureParameters gives the arriving node
LinkToLastParent(node, last, lastId) ==
    LET nodeParent == NodeParentType(node.itemType)
    IN  IF nodeParent # "INVALID" /\ last[nodeParent] # Null /\ node.parentId = lastId[nodeParent]
        THEN last[nodeParent]
        ELSE Null

\* the last-seen child whose m_parent the switch sets to the arriving node, or Null
ChildToRelink(node, last, allNodes) ==
    LET nodeChild == NodeChildType(node.itemType)
    IN  IF nodeChild # "INVALID" /\ last[nodeChild] # Null
           /\ allNodes[last[nodeChild]].parentId = node.id
        THEN last[nodeChild]
        ELSE Null

\* assert(spsParentId == m_lastPictParamsQueue[nodeParent]->GetSpsId(isNodeId)) and its VPS twin
LinkAssertFails(node, last, lastId, allNodes) ==
    LET p == LinkToLastParent(node, last, lastId)
    IN  p # Null /\ allNodes[p].id # node.parentId

\* a push at the front of the queue
AddPictureParametersToQueue_Front(queue, n) == << n >> \o queue

\* VkVideoDecoder::AddPictureParametersToQueue: the queue after the push
AddPictureParametersToQueue(queue, n) == Append(queue, n)

(***************************************************************************)
(* VkParserVideoPictureParameters: the compiled objects.                   *)
(***************************************************************************)
IdsOfKind(node, itemType) == IF node.itemType = itemType THEN {node.id} ELSE {}

\* Create without "m_Id = ++m_currentId": every object keeps the counter's value
PictureParametersCreate_NoIncrement(objs, curId, session, node, template, hwOk) ==
    IF ~hwOk
    THEN [ objects |-> objs, currentId |-> curId, new |-> Null ]
    ELSE LET obj == [ m_Id |-> curId,
                      vpsIdsUsed |-> (IF template # Null THEN objs[template].vpsIdsUsed ELSE {})
                                     \cup IdsOfKind(node, "VPS"),
                      spsIdsUsed |-> (IF template # Null THEN objs[template].spsIdsUsed ELSE {})
                                     \cup IdsOfKind(node, "SPS"),
                      ppsIdsUsed |-> (IF template # Null THEN objs[template].ppsIdsUsed ELSE {})
                                     \cup IdsOfKind(node, "PPS"),
                      videoSession |-> session.gen,
                      template |-> template ]
         IN  [ objects |-> Append(objs, obj), currentId |-> curId, new |-> Len(objs) + 1 ]

\* Create without the copy of the template's m_vpsIdsUsed, m_spsIdsUsed and m_ppsIdsUsed
PictureParametersCreate_NoTemplateCopy(objs, curId, session, node, template, hwOk) ==
    IF ~hwOk
    THEN [ objects |-> objs, currentId |-> curId, new |-> Null ]
    ELSE LET obj == [ m_Id |-> curId + 1,
                      vpsIdsUsed |-> IdsOfKind(node, "VPS"),
                      spsIdsUsed |-> IdsOfKind(node, "SPS"),
                      ppsIdsUsed |-> IdsOfKind(node, "PPS"),
                      videoSession |-> session.gen,
                      template |-> template ]
         IN  [ objects |-> Append(objs, obj), currentId |-> curId + 1, new |-> Len(objs) + 1 ]

\* VkParserVideoPictureParameters::Create for a batch of the one node given.
\* Returns the objects, the id counter and the handle of the new object (Null on failure).
PictureParametersCreate(objs, curId, session, node, template, hwOk) ==
    IF ~hwOk
    THEN [ objects |-> objs, currentId |-> curId, new |-> Null ]
    ELSE LET obj == [ m_Id |-> curId + 1,
                      vpsIdsUsed |-> (IF template # Null THEN objs[template].vpsIdsUsed ELSE {})
                                     \cup IdsOfKind(node, "VPS"),
                      spsIdsUsed |-> (IF template # Null THEN objs[template].spsIdsUsed ELSE {})
                                     \cup IdsOfKind(node, "SPS"),
                      ppsIdsUsed |-> (IF template # Null THEN objs[template].ppsIdsUsed ELSE {})
                                     \cup IdsOfKind(node, "PPS"),
                      videoSession |-> session.gen,
                      template |-> template ]
         IN  [ objects |-> Append(objs, obj), currentId |-> curId + 1, new |-> Len(objs) + 1 ]

\* VkParserVideoPictureParameters::Update on the object `cur`, for the one node given
PictureParametersUpdate(objs, cur, node, hwOk) ==
    IF ~hwOk
    THEN objs
    ELSE [ objs EXCEPT ![cur].vpsIdsUsed = @ \cup IdsOfKind(node, "VPS"),
                       ![cur].spsIdsUsed = @ \cup IdsOfKind(node, "SPS"),
                       ![cur].ppsIdsUsed = @ \cup IdsOfKind(node, "PPS") ]

\* VkVideoDecoder::CheckStdObjectBeforeUpdate: TRUE when a new object has to be created
CheckStdObjectBeforeUpdate(current, node) ==
    current = Null \/ node.updateSequenceCount > 0

\* the asserts of CheckStdObjectBeforeUpdate
BeforeUpdateAssertFails(current, node, session) ==
    IF CheckStdObjectBeforeUpdate(current, node)
    THEN session = NoSession \/ ~(node.updateSequenceCount > 0 \/ node.videoSession = 0)
    ELSE node.vkObjectOwner # Null \/ node.videoSession # 0

\* VkVideoDecoder::CheckStdObjectAfterUpdate: the node after the compile step
CheckStdObjectAfterUpdate(node, new, current, session, hwOk) ==
    IF new # Null
    THEN [ node EXCEPT !.videoSession = IF node.updateSequenceCount = 0 THEN session.gen ELSE @,
                       !.vkObjectOwner = new,
                       !.compiled = "ok" ]
    ELSE [ node EXCEPT !.videoSession = session.gen,
                       !.vkObjectOwner = current,
                       !.compiled = IF hwOk THEN "ok" ELSE "failed" ]

\* assert(pOwnerPictureParameters->GetId() < pNewPictureParametersObject->GetId())
AfterUpdateAssertFails(node, new, objs) ==
    /\ new # Null
    /\ node.updateSequenceCount # 0
    /\ node.vkObjectOwner # Null
    /\ ~(objs[node.vkObjectOwner].m_Id < objs[new].m_Id)

\* VkVideoDecoder::AddPictureParameters for the node n alone (the other two kinds empty).
\* st = [nodes, objects, current, currentId, asserted, failures, numQueueItems, queue, calls]
AddPictureParameters(st, n, session, hwOk) ==
    LET node == st.nodes[n]
        createNewObject == CheckStdObjectBeforeUpdate(st.current, node)
        created == PictureParametersCreate(st.objects, st.currentId, session, node, st.current, hwOk)
        objs1 == IF createNewObject THEN created.objects
                 ELSE PictureParametersUpdate(st.objects, st.current, node, hwOk)
        new == IF createNewObject THEN created.new ELSE Null
        current1 == IF createNewObject THEN new ELSE st.current
    IN  [ nodes |-> [ st.nodes EXCEPT ![n] = CheckStdObjectAfterUpdate(node, new, current1, session, hwOk) ],
          objects |-> objs1,
          current |-> current1,
          currentId |-> IF createNewObject THEN created.currentId ELSE st.currentId,
          asserted |-> \/ st.asserted
                       \/ BeforeUpdateAssertFails(st.current, node, session)
                       \/ ~hwOk
                       \/ AfterUpdateAssertFails(node, new, objs1),
          failures |-> st.failures + (IF hwOk THEN 0 ELSE 1),
          numQueueItems |-> st.numQueueItems + 1,
          queue |-> st.queue,
          calls |-> st.calls ]

\* the switch of FlushPictureParametersQueue: the three arguments of the AddPictureParameters
\* call made for the queued node n, the node in the place of its kind and the other two empty
ArgumentsFor(allNodes, n) ==
    [ vps |-> IF allNodes[n].itemType = "VPS" THEN n ELSE Null,
      sps |-> IF allNodes[n].itemType = "SPS" THEN n ELSE Null,
      pps |-> IF allNodes[n].itemType = "PPS" THEN n ELSE Null ]

\* a flush that compiles the front node only and leaves the rest queued (not what the code does)
FlushPictureParametersQueue_FrontOnly(st, queue, session, hwOks) ==
    IF queue = << >>
    THEN st
    ELSE [ AddPictureParameters(st, Head(queue), session, Head(hwOks)) EXCEPT !.queue = Tail(queue) ]

\* VkVideoDecoder::FlushPictureParametersQueue: the loop over the queue, front first, each
\* node popped after it was compiled; st.queue is what is left of the queue, st.numQueueItems
\* the returned count; hwOks[i] is the result of the hardware call made for the i-th node
RECURSIVE FlushPictureParametersQueue(_, _, _, _)
FlushPictureParametersQueue(st, queue, session, hwOks) ==
    IF queue = << >>
    THEN st
    ELSE FlushPictureParametersQueue(
             [ AddPictureParameters(st, Head(queue), session, Head(hwOks))
                   EXCEPT !.queue = Tail(queue),
                          !.calls = Append(st.calls, ArgumentsFor(st.nodes, Head(queue))) ],
             Tail(queue), session, Tail(hwOks))

\* the decoder's parameter state as the record the flush works on
ParamState ==
    [ nodes |-> nodes, objects |-> objects, current |-> currentPictureParameters,
      currentId |-> currentId, asserted |-> FALSE, failures |-> 0, numQueueItems |-> 0,
      queue |-> pictureParametersQueue, calls |-> << >> ]

\* the possible results of the hardware calls of one flush of a queue of length len
HwOutcomes(len, hwMayFail) ==
    { oks \in [1 .. len -> BOOLEAN] :
        Cardinality({ i \in 1 .. len : ~oks[i] })
            <= (IF hwMayFail THEN MaxHwFailures - hwFailures ELSE 0) }

(***************************************************************************)
(* VkVideoDecoder::StartVideoSequence                                       *)
(***************************************************************************)
\* The VkParserDetectedVideoFormat values the parser reports in this model.
\* display_width / display_height stand for display_area.right - left and bottom - top.
VideoFormats ==
    { [ codec |-> "H264", coded_width |-> 1920, coded_height |-> 1080,
        display_width |-> 1920, display_height |-> 1080,
        minNumDecodeSurfaces |-> 4, maxNumDpbSlots |-> 8 ],
      [ codec |-> "H264", coded_width |-> 1920, coded_height |-> 1080,
        display_width |-> 1920, display_height |-> 1072,
        minNumDecodeSurfaces |-> 2, maxNumDpbSlots |-> 8 ],
      [ codec |-> "H264", coded_width |-> 640, coded_height |-> 480,
        display_width |-> 640, display_height |-> 480,
        minNumDecodeSurfaces |-> 2, maxNumDpbSlots |-> 8 ],
      [ codec |-> "H265", coded_width |-> 3840, coded_height |-> 2160,
        display_width |-> 3840, display_height |-> 2160,
        minNumDecodeSurfaces |-> 6, maxNumDpbSlots |-> 16 ] }

\* what the external calls of one StartVideoSequence call report
SequenceOutcomes == { "ok", "codecUnsupported", "capabilitiesFailed", "formatsFailed", "poolMismatch" }

\* VkVideoCapabilitiesKHR of the device: minCodedExtent and pictureAccessGranularity
MinCodedExtentWidth == 64
MinCodedExtentHeight == 64
PictureAccessGranularityWidth == 16
PictureAccessGranularityHeight == 16

\* the formats GetSupportedVideoFormats reports for a profile
PictureFormatOf(codec) == IF codec = "H265" THEN "G10X6_B10X6R10X6_2PLANE_420" ELSE "G8_B8R8_2PLANE_420"

RECURSIVE BitAnd(_, _)
BitAnd(x, y) ==
    IF x = 0 \/ y = 0 THEN 0
    ELSE ((x % 2) * (y % 2)) + (2 * BitAnd(x \div 2, y \div 2))

\* ((extent + align) & ~align) with align = granularity - 1
AlignExtent(extent, granularity) ==
    LET align == granularity - 1
    IN  (extent + align) - BitAnd(extent + align, align)

\* imageExtent of StartVideoSequence, one dimension
ImageExtent(display, coded, minCoded, granularity) ==
    AlignExtent(Max(Max(display, coded), minCoded), granularity)

\* the session NvVideoSession::Create builds for the requirements of StartVideoSequence
NewVideoSession(gen, fmt) ==
    [ gen |-> gen,
      profile |-> fmt.codec,
      pictureFormat |-> PictureFormatOf(fmt.codec),
      referencePicturesFormat |-> PictureFormatOf(fmt.codec),
      width |-> ImageExtent(fmt.display_width, fmt.coded_width,
                            MinCodedExtentWidth, PictureAccessGranularityWidth),
      height |-> ImageExtent(fmt.display_height, fmt.coded_height,
                             MinCodedExtentHeight, PictureAccessGranularityHeight),
      maxDpbSlots |-> fmt.maxNumDpbSlots ]

\* NvVideoSession::IsCompatible
IsCompatible(session, fmt) ==
    LET wanted == NewVideoSession(session.gen, fmt)
    IN  /\ session.profile = wanted.profile
        /\ session.pictureFormat = wanted.pictureFormat
        /\ session.referencePicturesFormat = wanted.referencePicturesFormat
        /\ session.width = wanted.width
        /\ session.height = wanted.height
        /\ session.maxDpbSlots = wanted.maxDpbSlots

\* the condition without its IsCompatible half
NeedNewSession_OnlyWhenMissing(session, fmt) == session = NoSession

\* if (!m_videoSession || !m_videoSession->IsCompatible(...))
NeedNewSession(session, fmt) ==
    session = NoSession \/ ~IsCompatible(session, fmt)

\* the assignment without std::max
NegotiatedSurfaces_Latest(current, fmt) ==
    GetNumDecodeSurfaces(fmt.codec, fmt.minNumDecodeSurfaces, fmt.coded_width, fmt.coded_height)

\* m_numDecodeSurfaces = std::max(m_numDecodeSurfaces, GetNumDecodeSurfaces(...))
NegotiatedSurfaces(current, fmt) ==
    Max(current, GetNumDecodeSurfaces(fmt.codec, fmt.minNumDecodeSurfaces,
                                      fmt.coded_width, fmt.coded_height))

PicIdxs == { 0, 1 }
IdleSlot == [ fenceSignaled |-> TRUE, inFlight |-> 0 ]

\* const uint64_t gFenceTimeout, in nanoseconds
gFenceTimeout == 100000000

\* a wait that takes no timeout
NoTimeout == -1

\* the waits of StartVideoSequence once a format has been saved: neither takes a timeout
WaitIdleCalls(waitIdle) ==
    IF waitIdle
    THEN << [ call |-> "MultiThreadedQueueWaitIdle", timeout |-> NoTimeout, result |-> "VK_SUCCESS" ],
            [ call |-> "DeviceWaitIdle", timeout |-> NoTimeout, result |-> "VK_SUCCESS" ] >>
    ELSE << >>

StartVideoSequence(fmt, outcome) ==
    LET surfaces == NegotiatedSurfaces(numDecodeSurfaces, fmt)
        waitIdle == videoFormat # NoFormat
        early == outcome \in { "capabilitiesFailed", "formatsFailed" }
        needNew == NeedNewSession(videoSession, fmt)
    IN  /\ ~halted
        /\ seqStarts < MaxSeqStarts
        /\ seqStarts' = seqStarts + 1
        /\ numDecodeSurfaces' = surfaces
        /\ policyHistory' = policyHistory \cup { GetNumDecodeSurfaces(fmt.codec, fmt.minNumDecodeSurfaces,
                                                                     fmt.coded_width, fmt.coded_height) }
        /\ IF outcome = "codecUnsupported"
           THEN /\ lastOp' = [ op |-> "StartVideoSequence", ret |-> -1, asserted |-> TRUE,
                               poolInit |-> FALSE, waits |-> << >> ]
                /\ UNCHANGED << videoSession, resetDecoder, videoFormat, frameSlots, sessionsCreated,
                                decodesOnSession >>
           ELSE \* MultiThreadedQueueWaitIdle / DeviceWaitIdle once a format has been saved
                /\ frameSlots' = IF waitIdle THEN [ i \in PicIdxs |-> IdleSlot ] ELSE frameSlots
                /\ IF early
                   THEN /\ lastOp' = [ op |-> "StartVideoSequence", ret |-> -1, asserted |-> TRUE,
                                       poolInit |-> FALSE, waits |-> WaitIdleCalls(waitIdle) ]
                        /\ UNCHANGED << videoSession, resetDecoder, videoFormat, sessionsCreated,
                                        decodesOnSession >>
                   ELSE /\ IF needNew
                           THEN /\ videoSession' = NewVideoSession(sessionsCreated + 1, fmt)
                                /\ sessionsCreated' = sessionsCreated + 1
                                /\ resetDecoder' = TRUE
                                /\ decodesOnSession' = 0
                           ELSE UNCHANGED << videoSession, sessionsCreated, resetDecoder,
                                             decodesOnSession >>
                        /\ videoFormat' = fmt
                        /\ lastOp' = [ op |-> "StartVideoSequence", ret |-> surfaces,
                                       asserted |-> (outcome = "poolMismatch"),
                                       poolInit |-> TRUE, waits |-> WaitIdleCalls(waitIdle) ]
        /\ UNCHANGED << nodes, pictureParametersQueue, lastPictParamsQueue, lastIdInQueue, objects,
                        currentPictureParameters, currentId, decodePicCount, hwFailures, halted >>
        /\ UNCHANGED policyVars
        /\ UNCHANGED configVars
        /\ UNCHANGED bitstreamVars

(***************************************************************************)
(* VkVideoDecoder::UpdatePictureParameters                                  *)
(***************************************************************************)
\* an arrival that never flushes
FlushOnArrival_Never(session) == FALSE

\* if (m_videoSession && nodesTypeMask): nodesTypeMask, 1 << m_itemType, is never zero
FlushOnArrival(session) == session # NoSession

UpdatePictureParameters(itemType, id, parentId, updateSequenceCount, hwOks) ==
    LET n == Len(nodes) + 1
        arriving == NewNode(itemType, id, parentId, updateSequenceCount)
        child == ChildToRelink(arriving, lastPictParamsQueue, nodes)
        relinked == IF child # Null THEN [ nodes EXCEPT ![child].parent = n ] ELSE nodes
        linked == [ arriving EXCEPT !.parent = LinkToLastParent(arriving, lastPictParamsQueue, lastIdInQueue) ]
        nodes1 == Append(relinked, linked)
        queue1 == AddPictureParametersToQueue(pictureParametersQueue, n)
        flush == FlushOnArrival(videoSession)
        st == IF flush
              THEN FlushPictureParametersQueue([ ParamState EXCEPT !.nodes = nodes1, !.queue = queue1 ],
                                               queue1, videoSession, hwOks)
              ELSE [ ParamState EXCEPT !.nodes = nodes1, !.queue = queue1 ]
    IN  /\ ~halted
        /\ Len(nodes) < MaxNodes
        /\ nodes' = st.nodes
        /\ objects' = st.objects
        /\ currentPictureParameters' = st.current
        /\ currentId' = st.currentId
        /\ hwFailures' = hwFailures + st.failures
        /\ pictureParametersQueue' = st.queue
        /\ lastOp' = [ op |-> "UpdatePictureParameters", ret |-> 1,
                       asserted |-> (st.asserted
                                     \/ RangeAssertFails(arriving)
                                     \/ LinkAssertFails(arriving, lastPictParamsQueue, lastIdInQueue, nodes)),
                       node |-> n,
                       flushed |-> st.numQueueItems,
                       calls |-> st.calls ]
        /\ UNCHANGED << lastPictParamsQueue, lastIdInQueue >>
        /\ UNCHANGED << videoSession, resetDecoder, numDecodeSurfaces, videoFormat, decodePicCount,
                        frameSlots, halted, sessionsCreated, seqStarts, decodesOnSession,
                        policyHistory >>
        /\ UNCHANGED policyVars
        /\ UNCHANGED configVars
        /\ UNCHANGED bitstreamVars

\* a parameter set out of `arrivals` arrives from the parser; hardware calls may fail if hwMayFail
ParameterSetArrives(arrivals, hwMayFail) ==
    \E a \in arrivals :
      \E hwOks \in HwOutcomes(IF videoSession # NoSession THEN Len(pictureParametersQueue) + 1 ELSE 0,
                              hwMayFail) :
        UpdatePictureParameters(a.itemType, a.id, a.parentId, a.updateSequenceCount, hwOks)

\* the parser reports the start of a sequence with a format out of `formats`
SequenceStarts(formats, outcomes) ==
    \E fmt \in formats, outcome \in outcomes : StartVideoSequence(fmt, outcome)

(***************************************************************************)
(* VkVideoDecoder::DecodePictureWithParameters                              *)
(***************************************************************************)
\* the commands recorded into the frame slot's command buffer, in order
\* the copy only with separate output images
CopyEnabled_SeparateOnly(separate, linear) == separate

\* "if (m_useSeparateOutputImages || m_useLinearOutput)"
CopyEnabled(separate, linear) == separate \/ linear

\* the memory barrier that ends CopyOptimalToLinearImage
CopyMemoryBarrier ==
    [ srcAccessMask |-> "VK_ACCESS_TRANSFER_READ_BIT", dstAccessMask |-> "VK_ACCESS_HOST_READ_BIT" ]

\* the commands CopyOptimalToLinearImage records
CopyOptimalToLinearImage == << "CmdCopyImage", "CmdPipelineBarrier" >>

RecordedCommands(reset, copy) ==
    << "BeginCommandBuffer", "CmdResetQueryPool", "CmdBeginVideoCodingKHR" >>
    \o (IF reset THEN << "CmdControlVideoCodingKHR" >> ELSE << >>)
    \o << "CmdPipelineBarrier2KHR", "CmdBeginQuery", "CmdDecodeVideoKHR", "CmdEndQuery",
          "CmdEndVideoCodingKHR" >>
    \o (IF copy THEN CopyOptimalToLinearImage ELSE << >>)
    \o << "EndCommandBuffer" >>

\* what the frame buffer hands out for the picture (QueuePictureForDecode), what the parser
\* says of it, and what the consumer and the device do during the call: a consumer-done
\* semaphore and fence or null handles, a field picture or a frame, the results of the two
\* bounded fence waits (VK_SUCCESS where the call makes no such wait), and whether an earlier
\* submission on the slot completes between ResetFences and the submission
FrameSyncs ==
    { sync \in [ consumerDoneSemaphore : BOOLEAN, consumerDoneFence : BOOLEAN, fieldPic : BOOLEAN,
                 consumerWaitResult : { "VK_SUCCESS", "VK_TIMEOUT" },
                 fieldWaitResult : { "VK_SUCCESS", "VK_TIMEOUT" },
                 completesBeforeSubmit : BOOLEAN ] :
        /\ (sync.consumerDoneSemaphore \/ ~sync.consumerDoneFence)
                => sync.consumerWaitResult = "VK_SUCCESS"
        /\ (~sync.fieldPic \/ sync.completesBeforeSubmit) => sync.fieldWaitResult = "VK_SUCCESS" }

\* a frame picture on its first use: no consumer is done with it, the device is quiet
FirstUseSync ==
    [ consumerDoneSemaphore |-> FALSE, consumerDoneFence |-> FALSE, fieldPic |-> FALSE,
      consumerWaitResult |-> "VK_SUCCESS", fieldWaitResult |-> "VK_SUCCESS",
      completesBeforeSubmit |-> FALSE ]

\* "if ((frameConsumerDoneSemaphore == VkSemaphore()) && (frameConsumerDoneFence != VkFence()))"
WaitsForConsumer(sync) == ~sync.consumerDoneSemaphore /\ sync.consumerDoneFence

\* the blocking waits of one decode, in call order
DecodeWaits(sync) ==
    (IF WaitsForConsumer(sync)
     THEN << [ call |-> "WaitForFences", fence |-> "frameConsumerDoneFence",
               timeout |-> gFenceTimeout, result |-> sync.consumerWaitResult ] >>
     ELSE << >>)
    \o (IF sync.fieldPic
        THEN << [ call |-> "WaitForFences", fence |-> "frameCompleteFence",
                  timeout |-> gFenceTimeout, result |-> sync.fieldWaitResult ] >>
        ELSE << >>)

\* VkSubmitInfo and the fence of the one MultiThreadedQueueSubmit call
SubmitInfo(sync) ==
    [ waitSemaphores |-> IF sync.consumerDoneSemaphore
                         THEN << "frameConsumerDoneSemaphore" >> ELSE << >>,
      commandBufferCount |-> 1,
      signalSemaphores |-> << "frameCompleteSemaphore" >>,
      fence |-> "frameCompleteFence" ]

\* the host calls of one decode that reaches the submission, in program order
DecodeSteps(reset, copy, sync) ==
    << "BeginCommandBuffer", "FlushPictureParametersQueue", "QueuePictureForDecode" >>
    \o Tail(RecordedCommands(reset, copy))
    \o (IF WaitsForConsumer(sync) THEN << "WaitForFences", "GetFenceStatus" >> ELSE << >>)
    \o << "GetFenceStatus", "ResetFences", "GetFenceStatus", "MultiThreadedQueueSubmit" >>
    \o (IF sync.fieldPic THEN << "WaitForFences", "GetFenceStatus" >> ELSE << >>)

\* the block without "m_resetDecoder = false"
ResetDecoderAfterDecode_Kept(reset) == reset

\* m_resetDecoder after the block "if (m_resetDecoder != false) { ...; m_resetDecoder = false; }"
ResetDecoderAfterDecode(reset) == FALSE

\* the frame slot after ResetFences and MultiThreadedQueueSubmit
SubmitOnSlot(slot) == [ fenceSignaled |-> FALSE, inFlight |-> slot.inFlight + 1 ]

\* the same when an earlier submission on the slot completes after ResetFences and before
\* the submission: it signals the fence the new submission is given
SubmitOnSlotAfterCompletion(slot) == [ fenceSignaled |-> TRUE, inFlight |-> slot.inFlight ]

\* the frame slot when the call returns: a field picture's wait that succeeds on a fence
\* reset before the submission has seen the submission complete, and those before it
SlotAfterDecode(slot, sync) ==
    IF sync.completesBeforeSubmit THEN SubmitOnSlotAfterCompletion(slot)
    ELSE IF sync.fieldPic /\ sync.fieldWaitResult = "VK_SUCCESS" THEN IdleSlot
    ELSE SubmitOnSlot(slot)

\* the counter without its increment
DecodePicCountAfter_Kept(count) == count

\* m_decodePicCount after "picNumInDecodeOrder = m_decodePicCount++"
DecodePicCountAfter(count) == count + 1

\* the decode without its FlushPictureParametersQueue call
FlushBeforeDecode_Skipped(st, queue, session, hwOks) == st

\* the parameter state the decode works on: the queue is flushed before the owner is read
FlushBeforeDecode(st, queue, session, hwOks) == FlushPictureParametersQueue(st, queue, session, hwOks)

DecodePictureWithParameters(currPicIdx, pps, hwOks, sync) ==
    /\ ~halted
    /\ sync.completesBeforeSubmit => (videoSession # NoSession /\ frameSlots[currPicIdx].inFlight > 0)
    /\ IF videoSession = NoSession
       THEN \* assert(!"Decoder not initialized!"); return -1;
            /\ lastOp' = [ op |-> "DecodePicture", ret |-> -1, asserted |-> TRUE,
                           currPicIdx |-> currPicIdx, readOwner |-> FALSE, submitted |-> FALSE ]
            /\ UNCHANGED << nodes, pictureParametersQueue, objects, currentPictureParameters,
                            currentId, resetDecoder, decodePicCount, frameSlots, halted, hwFailures,
                            decodesOnSession >>
       ELSE LET st == FlushBeforeDecode(ParamState, pictureParametersQueue, videoSession, hwOks)
                queueAtRead == st.queue
                owner == st.nodes[pps].vkObjectOwner
                slot == frameSlots[currPicIdx]
                copy == CopyEnabled(useSeparateOutputImages, useLinearOutput)
                waits == DecodeWaits(sync)
                ownerAsserts ==
                    \/ owner = Null
                    \/ st.current = Null
                    \/ (owner # Null /\ st.current # Null
                        /\ ~(st.objects[owner].m_Id <= st.objects[st.current].m_Id))
                    \/ (owner # Null /\ GetSpsId(st.nodes[pps]) \notin st.objects[owner].spsIdsUsed)
                    \/ (owner # Null /\ st.nodes[pps].id \notin st.objects[owner].ppsIdsUsed)
            IN  /\ pps # Null
                /\ decodePicCount < MaxDecodes
                /\ decodePicCount' = DecodePicCountAfter(decodePicCount)
                /\ nodes' = st.nodes
                /\ objects' = st.objects
                /\ currentPictureParameters' = st.current
                /\ currentId' = st.currentId
                /\ hwFailures' = hwFailures + st.failures
                /\ pictureParametersQueue' = queueAtRead
                /\ IF owner = Null
                   THEN \* decodeBeginInfo.videoSessionParameters = *pOwnerPictureParameters
                        \* dereferences a null pointer
                        /\ ~sync.completesBeforeSubmit
                        /\ halted' = TRUE
                        /\ lastOp' = [ op |-> "DecodePicture", ret |-> -1, asserted |-> TRUE,
                                       currPicIdx |-> currPicIdx, readOwner |-> TRUE,
                                       submitted |-> FALSE,
                                       flushed |-> st.numQueueItems,
                                       calls |-> st.calls,
                                       queueAtRead |-> queueAtRead ]
                        /\ UNCHANGED << resetDecoder, frameSlots, decodesOnSession >>
                   ELSE /\ halted' = FALSE
                        /\ decodesOnSession' = decodesOnSession + 1
                        /\ resetDecoder' = ResetDecoderAfterDecode(resetDecoder)
                        /\ frameSlots' = [ frameSlots EXCEPT ![currPicIdx] = SlotAfterDecode(slot, sync) ]
                        /\ lastOp' = [ op |-> "DecodePicture", ret |-> currPicIdx,
                                       asserted |-> (st.asserted \/ ownerAsserts
                                                     \/ currPicIdx >= numDecodeSurfaces
                                                     \/ ~slot.fenceSignaled
                                                     \/ \E w \in 1 .. Len(waits) :
                                                          waits[w].result # "VK_SUCCESS"),
                                       currPicIdx |-> currPicIdx,
                                       readOwner |-> TRUE,
                                       submitted |-> TRUE,
                                       pps |-> pps,
                                       picNumInDecodeOrder |-> decodePicCount,
                                       flushed |-> st.numQueueItems,
                                       calls |-> st.calls,
                                       queueAtRead |-> queueAtRead,
                                       videoSession |-> videoSession.gen,
                                       videoSessionParameters |-> owner,
                                       commands |-> RecordedCommands(resetDecoder, copy),
                                       resetPending |-> resetDecoder,
                                       steps |-> DecodeSteps(resetDecoder, copy, sync),
                                       copyBarrier |-> IF copy THEN << CopyMemoryBarrier >> ELSE << >>,
                                       sync |-> sync,
                                       waits |-> waits,
                                       submitInfo |-> SubmitInfo(sync),
                                       fenceSignaledAtSubmit |-> sync.completesBeforeSubmit,
                                       inFlightAtRecording |-> slot.inFlight,
                                       fenceSignaledAtReset |-> slot.fenceSignaled ]
    /\ UNCHANGED << lastPictParamsQueue, lastIdInQueue, videoSession, numDecodeSurfaces,
                    videoFormat, sessionsCreated, seqStarts, policyHistory >>
    /\ UNCHANGED policyVars
    /\ UNCHANGED configVars
    /\ UNCHANGED bitstreamVars

PpsNodes == { n \in 1 .. Len(nodes) : nodes[n].itemType = "PPS" }

\* the parser asks for the decode of a picture into one of the picture indexes `idxs`
PictureDecodes(idxs, hwMayFail) ==
    \E currPicIdx \in idxs :
      \E pps \in (IF videoSession = NoSession THEN { Null } ELSE PpsNodes) :
        \E hwOks \in HwOutcomes(IF videoSession # NoSession THEN Len(pictureParametersQueue) ELSE 0,
                                hwMayFail) :
          DecodePictureWithParameters(currPicIdx, pps, hwOks, FirstUseSync)

\* the same with every answer of the frame buffer and of the device in `syncs`
PictureDecodesSync(idxs, syncs) ==
    \E currPicIdx \in idxs :
      \E pps \in (IF videoSession = NoSession THEN { Null } ELSE PpsNodes) :
        \E hwOks \in HwOutcomes(IF videoSession # NoSession THEN Len(pictureParametersQueue) ELSE 0,
                                FALSE) :
          \E sync \in syncs :
            DecodePictureWithParameters(currPicIdx, pps, hwOks, sync)

\* the device finishes one submission that used the slot of picture index i: its fence signals
DeviceCompletes ==
    \E i \in PicIdxs :
        /\ ~halted
        /\ frameSlots[i].inFlight > 0
        /\ frameSlots' = [ frameSlots EXCEPT ![i] = [ fenceSignaled |-> TRUE, inFlight |-> @.inFlight - 1 ] ]
        /\ UNCHANGED << nodes, pictureParametersQueue, lastPictParamsQueue, lastIdInQueue, objects,
                        currentPictureParameters, currentId, videoSession, resetDecoder,
                        numDecodeSurfaces, videoFormat, decodePicCount, lastOp,
                        halted, sessionsCreated, seqStarts, hwFailures, decodesOnSession,
                        policyHistory >>
        /\ UNCHANGED policyVars
        /\ UNCHANGED configVars
        /\ UNCHANGED bitstreamVars

\* VkVideoDecoder::Deinitialize with one decode queue: waits for the queue to go idle and
\* drops the frame buffer, the session and the device context; no call can follow
Deinitialize ==
    /\ ~halted
    /\ lastOp' = [ op |-> "Deinitialize", ret |-> 0, asserted |-> FALSE,
                   waits |-> << [ call |-> "MultiThreadedQueueWaitIdle", timeout |-> NoTimeout,
                                  result |-> "VK_SUCCESS" ] >> ]
    /\ frameSlots' = [ i \in PicIdxs |-> IdleSlot ]
    /\ videoSession' = NoSession
    /\ halted' = TRUE
    /\ UNCHANGED << nodes, pictureParametersQueue, lastPictParamsQueue, lastIdInQueue, objects,
                    currentPictureParameters, currentId, resetDecoder,
                    numDecodeSurfaces, videoFormat, decodePicCount,
                    sessionsCreated, seqStarts, hwFailures, decodesOnSession,
                    policyHistory >>
    /\ UNCHANGED policyVars
    /\ UNCHANGED configVars
    /\ UNCHANGED bitstreamVars

(***************************************************************************)
(* VkVideoDecoder::GetBitstreamBuffer and the pool of bitstream buffers.   *)
(***************************************************************************)
NoBuffer == [ capacity |-> 0, node |-> Null ]

\* the bytes the parser passes as pInitializeBufferMemory: n bytes, each non-zero and
\* different from its neighbours
Payload(n) == [ k \in 1 .. n |-> k ]

\* what bytes an allocation holds where nothing has been written: zero or anything else
FillBytes == { 0, 255 }

\* VulkanBitstreamBuffer::CopyDataFromBuffer(src, srcOffset, dstOffset, size)
CopyDataFromBuffer(data, src, srcOffset, dstOffset, size) ==
    [ k \in 1 .. Len(data) |->
        IF k > dstOffset /\ k <= dstOffset + size THEN src[(k - dstOffset) + srcOffset] ELSE data[k] ]

\* VulkanBitstreamBuffer::MemsetData(value, offset, size)
MemsetData(data, value, offset, size) ==
    [ k \in 1 .. Len(data) |-> IF k > offset /\ k <= offset + size THEN value ELSE data[k] ]

\* the buffer VulkanBitstreamBufferImpl::Create returns for newSize and the initial bytes
BitstreamBufferCreate(newSize, initData, fill) ==
    [ capacity |-> newSize,
      data |-> [ k \in 1 .. newSize |-> IF k <= Len(initData) THEN initData[k] ELSE fill ] ]

\* the nodes GetAvailableNodeFromPool may hand out: those no client holds
AvailableNodes(pool) == { i \in 1 .. Len(pool) : ~pool[i].inUse }

\* AddNodeToPool: the pool with the node added, or the pool as it was when it is full
AddNodeToPool(pool, buffer) ==
    IF Len(pool) < MaxPoolNodes
    THEN Append(pool, [ capacity |-> buffer.capacity, data |-> buffer.data, inUse |-> TRUE ])
    ELSE pool

\* the reuse branch without its MemsetData call
ReuseNode_NoMemset(entry, initData) ==
    [ capacity |-> entry.capacity,
      data |-> CopyDataFromBuffer(entry.data, initData, 0, 0, Min(Len(initData), entry.capacity)),
      inUse |-> TRUE ]

\* the pool entry rewritten for its next use: the copy and the memset of the reuse branch
ReuseNode(entry, initData) ==
    LET newSize == entry.capacity
        copySize == Min(Len(initData), newSize)
    IN  [ capacity |-> newSize,
          data |-> MemsetData(CopyDataFromBuffer(entry.data, initData, 0, 0, copySize),
                              0, copySize, newSize - copySize),
          inUse |-> TRUE ]

GetBitstreamBuffer(size, initData, availablePoolNode, createOk, fill) ==
    IF availablePoolNode = Null
    THEN IF ~createOk
         THEN \* fprintf(stderr, ...); return 0;
              /\ lastAcquire' = [ op |-> "GetBitstreamBuffer", ret |-> 0, asserted |-> TRUE,
                                  size |-> size, initData |-> initData, reused |-> Null,
                                  created |-> FALSE, pooled |-> FALSE ]
              /\ UNCHANGED << bitstreamBuffersQueue, maxStreamBufferSize, bitstreamBuffer >>
         ELSE LET new == BitstreamBufferCreate(size, initData, fill)
                  pool1 == AddNodeToPool(bitstreamBuffersQueue, new)
                  pooled == pool1 # bitstreamBuffersQueue
              IN  /\ bitstreamBuffersQueue' = pool1
                  /\ bitstreamBuffer' = [ capacity |-> new.capacity,
                                          node |-> IF pooled THEN Len(pool1) ELSE Null ]
                  /\ maxStreamBufferSize' = Max(maxStreamBufferSize, size)
                  /\ lastAcquire' = [ op |-> "GetBitstreamBuffer", ret |-> new.capacity,
                                      asserted |-> FALSE,
                                      size |-> size, initData |-> initData, reused |-> Null,
                                      created |-> TRUE, pooled |-> pooled,
                                      data |-> new.data ]
    ELSE LET entry == ReuseNode(bitstreamBuffersQueue[availablePoolNode], initData)
         IN  /\ bitstreamBuffersQueue' = [ bitstreamBuffersQueue EXCEPT ![availablePoolNode] = entry ]
             /\ bitstreamBuffer' = [ capacity |-> entry.capacity, node |-> availablePoolNode ]
             /\ maxStreamBufferSize' = Max(maxStreamBufferSize, entry.capacity)
             /\ lastAcquire' = [ op |-> "GetBitstreamBuffer", ret |-> entry.capacity,
                                 asserted |-> (Len(initData) > entry.capacity),
                                 size |-> size, initData |-> initData,
                                 reused |-> availablePoolNode,
                                 created |-> FALSE, pooled |-> TRUE,
                                 data |-> entry.data,
                                 before |-> bitstreamBuffersQueue[availablePoolNode].data ]

\* the parser asks for a bitstream buffer of a size and with initial bytes no longer than it
BitstreamBufferAcquired ==
    \E size \in 1 .. MaxBufferSize :
      \E n \in 0 .. size :
        \E availablePoolNode \in (IF AvailableNodes(bitstreamBuffersQueue) = { } THEN { Null }
                                   ELSE AvailableNodes(bitstreamBuffersQueue)) :
          \E createOk \in (IF availablePoolNode = Null THEN BOOLEAN ELSE { TRUE }) :
           \E fill \in (IF availablePoolNode = Null /\ createOk /\ n < size THEN FillBytes ELSE { 0 }) :
            /\ ~halted
            /\ GetBitstreamBuffer(size, Payload(n), availablePoolNode, createOk, fill)
            /\ UNCHANGED decoderVars
            /\ UNCHANGED policyVars
            /\ UNCHANGED configVars

\* a client drops its reference to the buffer of pool node i: the node becomes available
BitstreamBufferReleased ==
    \E i \in 1 .. Len(bitstreamBuffersQueue) :
        /\ ~halted
        /\ bitstreamBuffersQueue[i].inUse
        /\ bitstreamBuffersQueue' = [ bitstreamBuffersQueue EXCEPT ![i].inUse = FALSE ]
        /\ bitstreamBuffer' = IF bitstreamBuffer.node = i THEN NoBuffer ELSE bitstreamBuffer
        /\ UNCHANGED << maxStreamBufferSize, lastAcquire >>
        /\ UNCHANGED decoderVars
        /\ UNCHANGED policyVars
        /\ UNCHANGED configVars

(***************************************************************************)
(* The decoder after VkVideoDecoder::Create.                               *)
(***************************************************************************)
InitDecoder ==
    /\ nodes = << >>
    /\ pictureParametersQueue = << >>
    /\ lastPictParamsQueue = [ t \in ItemTypes |-> Null ]
    /\ lastIdInQueue = [ t \in ItemTypes |-> NoParent ]
    /\ objects = << >>
    /\ currentPictureParameters = Null
    /\ currentId = 0
    /\ videoSession = NoSession
    /\ resetDecoder \in BOOLEAN      \* set by the constructor, which this source file does not hold
    /\ numDecodeSurfaces = 0
    /\ videoFormat = NoFormat
    /\ decodePicCount = 0
    /\ frameSlots = [ i \in PicIdxs |-> IdleSlot ]
    /\ lastOp = [ op |-> "Create", ret |-> 0, asserted |-> FALSE ]
    /\ halted = FALSE
    /\ sessionsCreated = 0
    /\ seqStarts = 0
    /\ hwFailures = 0
    /\ decodesOnSession = 0
    /\ policyHistory = { }
    /\ bitstreamBuffersQueue = << >>
    /\ maxStreamBufferSize = 0
    /\ bitstreamBuffer = NoBuffer
    /\ lastAcquire = [ op |-> "none" ]

\* the decoder created without separate output images and without linear output
DefaultConfiguration ==
    /\ useSeparateOutputImages = FALSE
    /\ useLinearOutput = FALSE

Init ==
    /\ InitDecoder
    /\ DefaultConfiguration
    /\ policyIn = [ codec |-> "NONE", minNumDecodeSurfaces |-> 0, width |-> 0, height |-> 0 ]
    /\ policyOut = NoResult

ParameterSet(itemType, id, parentId, updateSequenceCount) ==
    [ itemType |-> itemType, id |-> id, parentId |-> parentId,
      updateSequenceCount |-> updateSequenceCount ]

\* the parameter sets the parser delivers: first submissions and revisions, of two SPS and two
\* PPS ids, a PPS referencing either SPS
ParserParameterSets ==
    { ParameterSet("VPS", 0, NoParent, 0),
      ParameterSet("SPS", 0, 0, 0), ParameterSet("SPS", 0, 0, 1), ParameterSet("SPS", 1, 0, 0),
      ParameterSet("PPS", 0, 0, 0), ParameterSet("PPS", 0, 0, 1),
      ParameterSet("PPS", 1, 0, 0), ParameterSet("PPS", 1, 1, 0) }

\* the parameter sets of a stream with one SPS and one PPS, each possibly revised
RevisedParameterSets ==
    { ParameterSet("SPS", 0, 0, 0), ParameterSet("SPS", 0, 0, 1),
      ParameterSet("PPS", 0, 0, 0), ParameterSet("PPS", 0, 0, 1) }

\* the next parameter set of a stream that sends its SPS first and then only PPSs of that SPS
StreamParameterSets ==
    IF nodes = << >> THEN { ParameterSet("SPS", 0, 0, 0) } ELSE { ParameterSet("PPS", 0, 0, 0) }

OneFormat == { fmt \in VideoFormats : fmt.minNumDecodeSurfaces = 4 }

(***************************************************************************)
(* SpecParams: the parameter-set graph under every arrival order, before   *)
(* and after the session exists, with decodes; the hardware calls succeed. *)
(***************************************************************************)
NextParams ==
    \/ ParameterSetArrives(ParserParameterSets, FALSE)
    \/ SequenceStarts(OneFormat, { "ok" })
    \/ PictureDecodes({ 0 }, FALSE)

SpecParams == Init /\ [][NextParams]_vars

(***************************************************************************)
(* SpecParamsHw: the same with hardware calls that may fail.               *)
(***************************************************************************)
NextParamsHw ==
    \/ ParameterSetArrives(RevisedParameterSets, TRUE)
    \/ SequenceStarts(OneFormat, { "ok" })
    \/ PictureDecodes({ 0 }, TRUE)

SpecParamsHw == Init /\ [][NextParamsHw]_vars

(***************************************************************************)
(* SpecSession: sequence negotiation under every format and outcome, and   *)
(* the submissions on the frame slots.                                     *)
(***************************************************************************)
NextSession ==
    \/ ParameterSetArrives(StreamParameterSets, FALSE)
    \/ SequenceStarts(VideoFormats, SequenceOutcomes)
    \/ PictureDecodes(PicIdxs, FALSE)
    \/ DeviceCompletes

SpecSession == Init /\ [][NextSession]_vars

(***************************************************************************)
(* SpecSubmit: the recording, the waits and the submission of every decode *)
(* under both output configurations, every answer of the frame buffer and  *)
(* a device that completes submissions at any time, up to the shutdown.    *)
(***************************************************************************)
InitSubmit ==
    /\ InitDecoder
    /\ useSeparateOutputImages \in BOOLEAN
    /\ useLinearOutput \in BOOLEAN
    /\ policyIn = [ codec |-> "NONE", minNumDecodeSurfaces |-> 0, width |-> 0, height |-> 0 ]
    /\ policyOut = NoResult

NextSubmit ==
    \/ ParameterSetArrives(StreamParameterSets, FALSE)
    \/ SequenceStarts(OneFormat, { "ok" })
    \/ PictureDecodesSync({ 0 }, FrameSyncs)
    \/ DeviceCompletes
    \/ Deinitialize

SpecSubmit == InitSubmit /\ [][NextSubmit]_vars

(***************************************************************************)
(* SpecRange: parameter sets with ids inside and outside the range of      *)
(* their kind, arriving before the decoder has a session (every sequence   *)
(* start is refused by the device), so that they stay queued.              *)
(***************************************************************************)
\* for each kind, the set with id 0 and the set with the first id past the range
RangeParameterSets ==
    { ParameterSet("VPS", 0, NoParent, 0), ParameterSet("VPS", MAX_VPS_IDS, NoParent, 0),
      ParameterSet("SPS", 0, 0, 0), ParameterSet("SPS", MAX_SPS_IDS, 0, 0),
      ParameterSet("PPS", 0, 0, 0), ParameterSet("PPS", MAX_PPS_IDS, 0, 0) }

NextRange ==
    \/ ParameterSetArrives(RangeParameterSets, FALSE)
    \/ SequenceStarts(OneFormat, { "codecUnsupported" })
    \/ PictureDecodes({ 0 }, FALSE)

SpecRange == Init /\ [][NextRange]_vars

(***************************************************************************)
(* SpecBitstream: the bitstream buffer pool under acquisitions and         *)
(* releases.                                                               *)
(***************************************************************************)
NextBitstream ==
    \/ BitstreamBufferAcquired
    \/ BitstreamBufferReleased

SpecBitstream == Init /\ [][NextBitstream]_vars

(***************************************************************************)
(* GetNumDecodeSurfaces on its own: the inputs are drawn in the initial    *)
(* state and the one action applies the function.                          *)
(***************************************************************************)
\* coded widths and heights, up to sizes whose 32-bit product wraps
PolicyExtents == { 640, 1920, 4096, 7680, 46341, 65536 }

InitPolicy ==
    /\ InitDecoder
    /\ DefaultConfiguration
    /\ policyIn \in [ codec : Codecs, minNumDecodeSurfaces : 0 .. MaxMinSurfaces,
                      width : PolicyExtents, height : PolicyExtents ]
    /\ policyOut = NoResult

ApplyPolicy ==
    /\ policyOut = NoResult
    /\ policyOut' = << GetNumDecodeSurfaces(policyIn.codec, policyIn.minNumDecodeSurfaces,
                                            policyIn.width, policyIn.height) >>
    /\ UNCHANGED policyIn
    /\ UNCHANGED configVars
    /\ UNCHANGED decoderVars
    /\ UNCHANGED bitstreamVars

NextPolicy == ApplyPolicy

SpecPolicy == InitPolicy /\ [][NextPolicy]_vars

(***************************************************************************)
(* The image extent of StartVideoSequence on its own, one dimension: the   *)
(* inputs are drawn in the initial state and the one action applies it.    *)
(***************************************************************************)
\* display sizes (right - left), coded sizes, minimum coded extents and granularities
ExtentDisplaySizes == { 0, 100, 1072, 1080 }
ExtentCodedSizes == { 100, 1080, 1088 }
ExtentMinCoded == { 16, 64, 2048 }
ExtentGranularities == { 1, 2, 3, 16, 24, 64 }

InitExtent ==
    /\ InitDecoder
    /\ DefaultConfiguration
    /\ policyIn \in [ display : ExtentDisplaySizes, coded : ExtentCodedSizes,
                      minCoded : ExtentMinCoded, granularity : ExtentGranularities ]
    /\ policyOut = NoResult

ApplyExtent ==
    /\ policyOut = NoResult
    /\ policyOut' = << ImageExtent(policyIn.display, policyIn.coded,
                                   policyIn.minCoded, policyIn.granularity) >>
    /\ UNCHANGED policyIn
    /\ UNCHANGED configVars
    /\ UNCHANGED decoderVars
    /\ UNCHANGED bitstreamVars

NextExtent == ApplyExtent

SpecExtent == InitExtent /\ [][NextExtent]_vars

(***************************************************************************)
(* The barrier batch of DecodePictureWithParameters on its own: the frame  *)
(* buffer's answers (the destination image and the reference slots with    *)
(* their current layouts) are drawn in the initial state and the one       *)
(* action builds the batch as the decode does.                             *)
(***************************************************************************)
\* capacity of imageBarriers[] and pictureResourcesInfo[]
MAX_DPB_REF_AND_SETUP_SLOTS == 17

ImageLayouts ==
    { "VK_IMAGE_LAYOUT_UNDEFINED", "VK_IMAGE_LAYOUT_GENERAL",
      "VK_IMAGE_LAYOUT_VIDEO_DECODE_DPB_KHR", "VK_IMAGE_LAYOUT_VIDEO_DECODE_DST_KHR" }

DecodeLayouts ==
    { "VK_IMAGE_LAYOUT_VIDEO_DECODE_DPB_KHR", "VK_IMAGE_LAYOUT_VIDEO_DECODE_DST_KHR" }

\* a null VkImage handle: the picture of the slot does not exist
NullImage == 0

\* the image the decode writes
DestinationImage == 1

\* how the reference slots name images: each its own, the first two the same image,
\* or the first slot without an image
ImagePatterns == { "distinct", "shared", "absent" }

\* pictureResourcesInfo[] as GetDpbImageResourcesByIndex fills it
GopReferenceSlots(in) ==
    [ resId \in 1..in.numGopReferenceSlots |->
        [ image |-> IF in.images = "absent" /\ resId = 1 THEN NullImage
                    ELSE IF in.images = "shared" /\ resId = 2 THEN DestinationImage + 1
                    ELSE DestinationImage + resId,
          currentImageLayout |-> IF resId = 1 \/ (in.images = "shared" /\ resId = 2)
                                 THEN in.firstLayout ELSE in.restLayout ] ]

\* currentDpbPictureResourceInfo as GetCurrentImageResourceByIndex fills it
CurrentDpbPictureResourceInfo(in) ==
    [ image |-> DestinationImage, currentImageLayout |-> in.dstLayout ]

BitstreamBufferMemoryBarrier ==
    [ srcAccessMask |-> "VK_ACCESS_2_HOST_WRITE_BIT_KHR",
      dstAccessMask |-> "VK_ACCESS_2_VIDEO_DECODE_READ_BIT_KHR" ]

DestinationBarrier(info) ==
    IF info.currentImageLayout = "VK_IMAGE_LAYOUT_UNDEFINED"
    THEN << [ image |-> info.image, oldLayout |-> info.currentImageLayout,
              newLayout |-> "VK_IMAGE_LAYOUT_VIDEO_DECODE_DST_KHR",
              dstAccessMask |-> "VK_ACCESS_2_VIDEO_DECODE_WRITE_BIT_KHR" ] >>
    ELSE << >>

RECURSIVE ReferenceBarriers(_, _)
ReferenceBarriers(infos, resId) ==
    IF resId > Len(infos) THEN << >>
    ELSE (IF /\ infos[resId].image # NullImage
             /\ infos[resId].currentImageLayout # "VK_IMAGE_LAYOUT_VIDEO_DECODE_DPB_KHR"
             /\ infos[resId].currentImageLayout # "VK_IMAGE_LAYOUT_VIDEO_DECODE_DST_KHR"
          THEN << [ image |-> infos[resId].image,
                    oldLayout |-> infos[resId].currentImageLayout,
                    newLayout |-> "VK_IMAGE_LAYOUT_VIDEO_DECODE_DPB_KHR",
                    dstAccessMask |-> "VK_ACCESS_2_VIDEO_DECODE_READ_BIT_KHR" ] >>
          ELSE << >>)
         \o ReferenceBarriers(infos, resId + 1)

\* the dependency info handed to CmdPipelineBarrier2KHR
BarrierBatch(dst, infos) ==
    [ bufferMemoryBarriers |-> << BitstreamBufferMemoryBarrier >>,
      imageMemoryBarriers |-> DestinationBarrier(dst) \o ReferenceBarriers(infos, 1) ]

InitBarriers ==
    /\ InitDecoder
    /\ DefaultConfiguration
    /\ policyIn \in [ dstLayout : ImageLayouts,
                      numGopReferenceSlots : 0..MAX_DPB_REF_AND_SETUP_SLOTS,
                      firstLayout : ImageLayouts, restLayout : ImageLayouts,
                      images : ImagePatterns ]
    /\ policyOut = NoResult

BuildBarriers ==
    /\ policyOut = NoResult
    /\ policyOut' = << BarrierBatch(CurrentDpbPictureResourceInfo(policyIn),
                                    GopReferenceSlots(policyIn)) >>
    /\ UNCHANGED policyIn
    /\ UNCHANGED configVars
    /\ UNCHANGED decoderVars
    /\ UNCHANGED bitstreamVars

NextBarriers == BuildBarriers

SpecBarriers == InitBarriers /\ [][NextBarriers]_vars

(***************************************************************************)
(* Properties.                                                             *)
(***************************************************************************)
SetMax(S) == CHOOSE x \in S : \A y \in S : y <= x

\* the most recent node of the given kind that arrived before node n, or Null
LastSeenBefore(n, itemType) ==
    LET earlier == { m \in 1 .. (n - 1) : nodes[m].itemType = itemType }
    IN  IF earlier = { } THEN Null ELSE SetMax(earlier)

\* an SPS with the id the node references has arrived
ReferencedSpsArrived(n) ==
    \E m \in 1 .. Len(nodes) : nodes[m].itemType = "SPS" /\ nodes[m].id = nodes[n].parentId

\* C1: after a full flush with a session present, the owning object of every PICTURE node
\* has the node's picture id in its PPS set and the node's referenced sequence id in its
\* SPS set.  Stated here only for the PICTURE nodes whose SPS has arrived.
C1_OwnerHoldsPictureAndSequenceIds ==
    (videoSession # NoSession /\ pictureParametersQueue = << >>) =>
        \A n \in PpsNodes :
            (nodes[n].vkObjectOwner # Null /\ ReferencedSpsArrived(n)) =>
                /\ nodes[n].id \in objects[nodes[n].vkObjectOwner].ppsIdsUsed
                /\ GetSpsId(nodes[n]) \in objects[nodes[n].vkObjectOwner].spsIdsUsed

\* C2: when a node of kind K with id I has arrived and the last-seen node of the child
\* kind stores parent id I, that child's parent is the new node (a PPS that arrived before
\* its SPS is linked to the SPS once the SPS arrives).
C2_RetroactiveLink ==
    lastOp.op = "UpdatePictureParameters" =>
        LET n == lastOp.node
            child == LastSeenBefore(n, NodeChildType(nodes[n].itemType))
        IN  (child # Null /\ nodes[child].parentId = nodes[n].id) => nodes[child].parent = n

\* C3: the identities of the successfully created objects are strictly increasing in
\* creation order, and no step (an in-place update included) changes the identity of an
\* object that exists.
C3_IdentitiesStrictlyIncreasing ==
    /\ [](\A i, j \in 1 .. Len(objects) : i < j => objects[i].m_Id < objects[j].m_Id)
    /\ [][\A i \in 1 .. Len(objects) : objects'[i].m_Id = objects[i].m_Id]_vars

\* C3 witness: two objects exist, and one of them has been updated in place (it was created
\* without a template for one parameter set, and holds two)
C3_Witness ==
    /\ Len(objects) >= 2
    /\ \E i \in 1 .. Len(objects) :
          /\ objects[i].template = Null
          /\ Cardinality(objects[i].spsIdsUsed) + Cardinality(objects[i].ppsIdsUsed) >= 2

\* C4: the negotiated surface count is the maximum of the GetNumDecodeSurfaces results of
\* all StartVideoSequence calls so far, and a successful call returns that maximum.
C4_SurfaceCountIsRunningMaximum ==
    /\ numDecodeSurfaces = SetMax(policyHistory \cup { 0 })
    /\ (lastOp.op = "StartVideoSequence" /\ lastOp.ret >= 0) => lastOp.ret = numDecodeSurfaces

\* C4 witness: a second sequence start whose own policy result is smaller than the count
\* it returned
C4_Witness ==
    /\ seqStarts >= 2
    /\ lastOp.op = "StartVideoSequence"
    /\ lastOp.ret >= 0
    /\ GetNumDecodeSurfaces(videoFormat.codec, videoFormat.minNumDecodeSurfaces,
                            videoFormat.coded_width, videoFormat.coded_height) < lastOp.ret

\* the session matches the requirements of the format: profile, picture and reference
\* formats, aligned extent and DPB-slot capacity
SessionMeetsRequirements(session, fmt) ==
    session # NoSession /\ [ session EXCEPT !.gen = 0 ] = NewVideoSession(0, fmt)

PositionsOf(commands, command) == { k \in 1 .. Len(commands) : commands[k] = command }

C7_QueueDrainedBeforeDecodeReads ==
    (lastOp.op = "DecodePicture" /\ lastOp.readOwner) =>
        /\ lastOp.queueAtRead = << >>
        /\ pictureParametersQueue = << >>
        /\ \A n \in 1 .. Len(nodes) : nodes[n].compiled # "queued"

\* C7 witness: a submitted decode that found parameter sets queued while no session existed
\* and compiled them
C7_Witness ==
    /\ lastOp.op = "DecodePicture"
    /\ lastOp.submitted
    /\ lastOp.flushed >= 1

\* C8: for every picture index, at most one submission that uses its frame slot is
\* submitted and not yet completed.
C8_SlotNeverSharedInFlight ==
    \A i \in PicIdxs : frameSlots[i].inFlight <= 1

\* C9: the surface count GetNumDecodeSurfaces returns is at least the requested minimum.
C9_PolicyAtLeastMinimum ==
    policyOut # NoResult => policyOut[1] >= policyIn.minNumDecodeSurfaces

\* width * height <= limit over the unbounded integers (height >= 1)
AreaAtMost(width, height, limit) == width <= limit \div height

\* the reference policy: the tier is chosen from the true picture area
ReferencePolicy(codec, minNumDecodeSurfaces, width, height) ==
    IF codec = "H264" THEN minNumDecodeSurfaces + 4 + 4
    ELSE IF codec = "H265"
         THEN LET D == IF AreaAtMost(width, height, 35651584 \div 4) THEN 24
                       ELSE IF AreaAtMost(width, height, 35651584 \div 2) THEN 12
                       ELSE IF AreaAtMost(width, height, (3 * 35651584) \div 4) THEN 8
                       ELSE 6
              IN  Min(D, 16) + 4
         ELSE 8

\* C10: GetNumDecodeSurfaces equals the reference policy on every input.
C10_PolicyEqualsReference ==
    policyOut # NoResult =>
        policyOut[1] = ReferencePolicy(policyIn.codec, policyIn.minNumDecodeSurfaces,
                                       policyIn.width, policyIn.height)

\* some node has its m_parent set
SomeParentLinkSet ==
    \E n \in 1 .. Len(nodes) : nodes[n].parent # Null

\* C11: a PICTURE node whose parent link is set has as parent a SEQUENCE node whose own id
\* is the sequence id the picture references, and a SEQUENCE node's parent, if set, is a
\* VIDEO node whose id is the video id the sequence references.
C11_ParentLinkMatchesReferencedId ==
    \A n \in 1 .. Len(nodes) :
        nodes[n].parent # Null =>
            /\ nodes[n].itemType \in { "PPS", "SPS" }
            /\ nodes[nodes[n].parent].itemType = NodeParentType(nodes[n].itemType)
            /\ nodes[nodes[n].parent].id = nodes[n].parentId

\* no reachable state has a parent link: m_lastPictParamsQueue stays empty
C11_NoParentLinkEver == ~SomeParentLinkSet

\* each compiled-id set of object a is contained in the corresponding set of object b
IdSetsContained(a, b) ==
    /\ a.vpsIdsUsed \subseteq b.vpsIdsUsed
    /\ a.spsIdsUsed \subseteq b.spsIdsUsed
    /\ a.ppsIdsUsed \subseteq b.ppsIdsUsed

\* C12: an object created from a template holds every id of each of the template's three
\* sets (in every state: the template is not updated once it has been replaced), and in the
\* step that creates it for one arriving parameter set its sets are exactly the template's
\* plus the id of the arriving set, every existing object, the template included, unchanged.
C12_CreatedFromTemplateIsSuperset ==
    /\ [](\A k \in 1 .. Len(objects) :
            objects[k].template # Null =>
                /\ objects[k].template < k
                /\ IdSetsContained(objects[objects[k].template], objects[k]))
    /\ [][ (Len(nodes') = Len(nodes) + 1 /\ lastOp'.flushed = 1
                /\ Len(objects') = Len(objects) + 1) =>
              LET new == objects'[Len(objects')]
                  node == nodes'[lastOp'.node]
                  Of(set, t) == IF t = Null THEN { } ELSE set[t]
              IN  /\ \A i \in 1 .. Len(objects) : objects'[i] = objects[i]
                  /\ new.template = currentPictureParameters
                  /\ new.vpsIdsUsed = Of([ i \in 1 .. Len(objects) |-> objects[i].vpsIdsUsed ],
                                         new.template) \cup IdsOfKind(node, "VPS")
                  /\ new.spsIdsUsed = Of([ i \in 1 .. Len(objects) |-> objects[i].spsIdsUsed ],
                                         new.template) \cup IdsOfKind(node, "SPS")
                  /\ new.ppsIdsUsed = Of([ i \in 1 .. Len(objects) |-> objects[i].ppsIdsUsed ],
                                         new.template) \cup IdsOfKind(node, "PPS") ]_vars

\* C12 witness: an object created from a template that held an SPS and a PPS, for the
\* revision of a parameter set
C12_Witness ==
    \E k \in 1 .. Len(objects) :
        /\ objects[k].template # Null
        /\ objects[objects[k].template].spsIdsUsed # { }
        /\ objects[objects[k].template].ppsIdsUsed # { }
        /\ IdSetsContained(objects[objects[k].template], objects[k])

\* C13: a buffer handed out again from the pool, of capacity C, with initial data of length
\* n <= C, holds the initial data in its first n bytes and zero in every byte after them.
C13_ReusedBufferIsPayloadThenZeros ==
    (lastAcquire.op = "GetBitstreamBuffer" /\ lastAcquire.reused # Null
        /\ Len(lastAcquire.initData) <= lastAcquire.ret) =>
        /\ Len(lastAcquire.data) = lastAcquire.ret
        /\ \A k \in 1 .. lastAcquire.ret :
              lastAcquire.data[k] = IF k <= Len(lastAcquire.initData)
                                    THEN lastAcquire.initData[k] ELSE 0
        /\ bitstreamBuffersQueue[lastAcquire.reused].data = lastAcquire.data

\* C13 witness: a reused buffer that held a non-zero byte of its earlier use after the end of
\* the new, non-empty initial data
C13_Witness ==
    /\ lastAcquire.op = "GetBitstreamBuffer"
    /\ lastAcquire.reused # Null
    /\ Len(lastAcquire.initData) >= 1
    /\ \E k \in (Len(lastAcquire.initData) + 1) .. lastAcquire.ret : lastAcquire.before[k] # 0

\* C18: when the pool has no free node, GetBitstreamBuffer allocates a buffer of capacity
\* >= the requested size, seeds it with the initial data, inserts it into the pool and
\* returns it; when the allocation fails it returns 0 and leaves the caller's handle, the
\* pool and the high-water mark unchanged.
C18_ExhaustedPoolGrows ==
    [][ (AvailableNodes(bitstreamBuffersQueue) = { }
            /\ AvailableNodes(bitstreamBuffersQueue') = { }
            /\ lastAcquire'.op = "GetBitstreamBuffer") =>
              IF lastAcquire'.created
              THEN /\ lastAcquire'.ret >= lastAcquire'.size
                   /\ bitstreamBuffer'.capacity = lastAcquire'.ret
                   /\ \A k \in 1 .. Len(lastAcquire'.initData) :
                         lastAcquire'.data[k] = lastAcquire'.initData[k]
                   /\ Len(bitstreamBuffersQueue') = Len(bitstreamBuffersQueue) + 1
                   /\ bitstreamBuffer'.node = Len(bitstreamBuffersQueue')
                   /\ bitstreamBuffersQueue'[Len(bitstreamBuffersQueue')].data = lastAcquire'.data
              ELSE /\ lastAcquire'.ret = 0
                   /\ bitstreamBuffersQueue' = bitstreamBuffersQueue
                   /\ maxStreamBufferSize' = maxStreamBufferSize
                   /\ bitstreamBuffer' = bitstreamBuffer ]_vars

\* a step that ran the queue flush: an arrival while a session exists, or a decode that got as
\* far as reading the picture's parameter object
ArrivalFlushStep == /\ Len(nodes') = Len(nodes) + 1
                    /\ videoSession # NoSession
DecodeFlushStep == /\ decodePicCount' = decodePicCount + 1
                   /\ lastOp'.op = "DecodePicture"
                   /\ lastOp'.readOwner

\* C14: a flush compiles every queued node, front first, returns how many it compiled and
\* leaves the queue empty; a flush that finds the queue empty returns zero and changes neither
\* the nodes, the compiled objects, the current object nor the id counter
C14_FlushDrainsQueueAndCounts ==
    [][ /\ ArrivalFlushStep => /\ lastOp'.flushed = Len(pictureParametersQueue) + 1
                               /\ pictureParametersQueue' = << >>
        /\ DecodeFlushStep => /\ lastOp'.flushed = Len(pictureParametersQueue)
                              /\ pictureParametersQueue' = << >>
                              /\ \A i \in 1..Len(pictureParametersQueue) :
                                     nodes'[pictureParametersQueue[i]].vkObjectOwner # Null
        /\ (DecodeFlushStep /\ pictureParametersQueue = << >>) =>
               /\ nodes' = nodes
               /\ objects' = objects
               /\ currentPictureParameters' = currentPictureParameters
               /\ currentId' = currentId ]_vars

\* a decode whose flush found the queue already emptied by an earlier flush, after an earlier
\* flush had compiled more than one node
C14_Witness ==
    /\ lastOp.op = "DecodePicture"
    /\ lastOp.readOwner
    /\ lastOp.flushed = 0
    /\ pictureParametersQueue = << >>
    /\ Cardinality({ n \in 1..Len(nodes) : nodes[n].vkObjectOwner # Null }) >= 2

\* a step of StartVideoSequence that left through one of its three failure returns
FailedSequenceStartStep == /\ seqStarts' = seqStarts + 1
                           /\ lastOp'.op = "StartVideoSequence"
                           /\ ~lastOp'.poolInit

\* C15: a sequence start that fails on the codec check, the capability query or the format
\* query leaves the decoder as it was: same session, reset flag not set, pool not resized,
\* same saved format and same negotiated surface count
C15_FailedSequenceStartChangesNothing ==
    [][ FailedSequenceStartStep =>
            /\ videoSession' = videoSession
            /\ sessionsCreated' = sessionsCreated
            /\ resetDecoder' = resetDecoder
            /\ videoFormat' = videoFormat
            /\ numDecodeSurfaces' = numDecodeSurfaces ]_vars

\* C19: the sequence start returns 0 whenever it fails, and at least 1 (1, or the overriding
\* DPB size) when it succeeds
C19_SequenceStartReturnsZeroOnFailure ==
    lastOp.op = "StartVideoSequence" =>
        /\ ~lastOp.poolInit => lastOp.ret = 0
        /\ lastOp.poolInit => lastOp.ret >= 1

\* C16: a sequence start whose image pool reports a surface count other than the requested
\* one neither returns a surface count nor saves the new format
C16_PoolMismatchIsFatal ==
    [][ ( /\ seqStarts' = seqStarts + 1
          /\ lastOp'.op = "StartVideoSequence"
          /\ lastOp'.poolInit
          /\ lastOp'.asserted ) =>
            /\ lastOp'.ret <= 0
            /\ videoFormat' = videoFormat ]_vars

\* C20: a decode that returns (it did not stop on the null owner) returns 0 when it failed and
\* at least 1 when it submitted the picture, whatever the output index, index 0 included
C20_DecodeReturnsPositiveOnSubmission ==
    (lastOp.op = "DecodePicture" /\ ~halted) =>
        /\ lastOp.submitted => lastOp.ret >= 1
        /\ ~lastOp.submitted => lastOp.ret = 0

\* C17: a parameter set whose id lies outside the range of its kind is not enqueued (and so
\* never compiled): every queued node has an id inside the range of its kind
C17_OutOfRangeIdNeverQueued ==
    \A i \in 1 .. Len(pictureParametersQueue) : IdInRange(nodes[pictureParametersQueue[i]])

\* C21: recording into a frame slot begins only once the fence of the slot's previous
\* submission has signaled: when a decode begins its command buffer, no earlier submission
\* on the slot is still in flight and the slot's fence is signaled
C21_RecordingOnlyAfterFenceSignaled ==
    (lastOp.op = "DecodePicture" /\ lastOp.submitted) =>
        /\ lastOp.inFlightAtRecording = 0
        /\ lastOp.fenceSignaledAtReset

\* a compiled object exists that was created against the decoder's present session
ObjectExistsForSession ==
    \E k \in 1 .. Len(objects) : objects[k].videoSession = videoSession.gen

\* C22: when one node is flushed, a new object is created from the current one as template
\* and installed as current if and only if no compiled object exists yet for the session or
\* the node's update-sequence counter is nonzero; otherwise the current object is updated in
\* place and stays the current object, with the identity it had
C22_NewObjectIffFirstOrRevision ==
    [][ (ArrivalFlushStep /\ pictureParametersQueue = << >>) =>
            LET node == nodes'[Len(nodes')]
            IN  IF ~ObjectExistsForSession \/ node.updateSequenceCount > 0
                THEN /\ Len(objects') = Len(objects) + 1
                     /\ currentPictureParameters' = Len(objects')
                     /\ objects'[Len(objects')].template = currentPictureParameters
                     /\ node.vkObjectOwner = Len(objects')
                ELSE /\ Len(objects') = Len(objects)
                     /\ currentPictureParameters' = currentPictureParameters
                     /\ objects'[currentPictureParameters].m_Id = objects[currentPictureParameters].m_Id
                     /\ node.vkObjectOwner = currentPictureParameters ]_vars

\* C23: the parameter object a decode binds in its coding scope was created against the
\* session bound in the same scope, and a parameter set is never added in place to an object
\* created against another session than the present one
C23_BoundObjectBelongsToBoundSession ==
    /\ []((lastOp.op = "DecodePicture" /\ lastOp.submitted) =>
              objects[lastOp.videoSessionParameters].videoSession = lastOp.videoSession)
    /\ [][ (ArrivalFlushStep /\ Len(objects') = Len(objects) /\ currentPictureParameters' # Null) =>
               objects[currentPictureParameters'].videoSession = videoSession.gen ]_vars

\* the latest SPS node with the given id that has been compiled, or Null
LatestCompiledSps(id) ==
    LET compiled == { m \in 1 .. Len(nodes) : /\ nodes[m].itemType = "SPS"
                                             /\ nodes[m].id = id
                                             /\ nodes[m].compiled = "ok" }
    IN  IF compiled = { } THEN Null ELSE SetMax(compiled)

\* C24: the object a decode binds holds the most recently flushed revision of the SPS the
\* picture's PPS references: the object is the owner of that SPS node or was created after it
C24_DecodeBindsLatestSequenceRevision ==
    (lastOp.op = "DecodePicture" /\ lastOp.submitted) =>
        LET sps == LatestCompiledSps(nodes[lastOp.pps].parentId)
        IN  sps # Null =>
                objects[lastOp.videoSessionParameters].m_Id >= objects[nodes[sps].vkObjectOwner].m_Id

\* C25: an arrival overwrites the last-seen slot of its kind with the new node, and when the
\* most recent earlier arrival of the parent kind has the id the new node references, the
\* new node's parent is that earlier node
C25_ArrivalRecordedAndLinkedToLastParent ==
    lastOp.op = "UpdatePictureParameters" =>
        LET n == lastOp.node
            p == LastSeenBefore(n, NodeParentType(nodes[n].itemType))
        IN  /\ lastPictParamsQueue[nodes[n].itemType] = n
            /\ lastIdInQueue[nodes[n].itemType] = nodes[n].id
            /\ (p # Null /\ nodes[p].id = nodes[n].parentId) => nodes[n].parent = p

\* the latest node of the parent kind of node n that carries the id n references, or Null
LatestParentOf(n) ==
    LET parents == { m \in 1 .. Len(nodes) : /\ nodes[m].itemType = NodeParentType(nodes[n].itemType)
                                            /\ nodes[m].id = nodes[n].parentId }
    IN  IF parents = { } THEN Null ELSE SetMax(parents)

\* C26: every node whose parent is set has as parent the most recently arrived node of the
\* parent kind with the id it references, and once a node of the parent kind with that id
\* has arrived, every queued child that references the id is linked to the latest such node
C26_EveryChildLinkedToLatestParent ==
    \A n \in 1 .. Len(nodes) :
        /\ nodes[n].parent # Null => nodes[n].parent = LatestParentOf(n)
        /\ ( /\ \E i \in 1 .. Len(pictureParametersQueue) : pictureParametersQueue[i] = n
             /\ nodes[n].itemType \in { "PPS", "SPS" }
             /\ LatestParentOf(n) # Null
             /\ LatestParentOf(n) > n ) => nodes[n].parent = LatestParentOf(n)

\* the AddPictureParameters calls a flush of the given queue makes, in order
CallsFor(queue, allNodes) == [ i \in 1 .. Len(queue) |-> ArgumentsFor(allNodes, queue[i]) ]

\* C27: an arrival appends exactly one entry, the new node, at the tail of the queue, whatever
\* is queued already; a flush makes one AddPictureParameters call per queued node, in the
\* order of arrival across all kinds, each call with only that node's kind populated
C27_QueueIsFifoWithoutDeduplication ==
    [][ /\ (Len(nodes') = Len(nodes) + 1 /\ videoSession = NoSession) =>
               pictureParametersQueue' = Append(pictureParametersQueue, Len(nodes'))
        /\ ArrivalFlushStep =>
               lastOp'.calls = CallsFor(Append(pictureParametersQueue, Len(nodes')), nodes')
        /\ DecodeFlushStep =>
               lastOp'.calls = CallsFor(pictureParametersQueue, nodes) ]_vars

\* C27 witness: a flush that compiled, in arrival order, a queue that held a first submission
\* and a revision of the same id, and a node of another kind
C27_Witness ==
    /\ lastOp.op \in { "DecodePicture", "UpdatePictureParameters" }
    /\ "calls" \in DOMAIN lastOp
    /\ Len(lastOp.calls) = 3
    /\ \E i, j \in 1 .. 3 :
          /\ i < j
          /\ lastOp.calls[i].pps # Null
          /\ lastOp.calls[j].pps # Null
          /\ nodes[lastOp.calls[i].pps].id = nodes[lastOp.calls[j].pps].id
    /\ \E k \in 1 .. 3 : lastOp.calls[k].sps # Null

\* C28: after UpdatePictureParameters has returned while a session exists the queue is empty
\* and no node is left uncompiled; an arrival while no session exists only queues the node:
\* no object is created or updated and no node gets an owner; and StartVideoSequence leaves
\* the queue, the nodes and the objects as they are
C28_FlushOnArrivalOnlyWithSession ==
    /\ []((lastOp.op = "UpdatePictureParameters" /\ videoSession # NoSession) =>
              /\ pictureParametersQueue = << >>
              /\ \A n \in 1 .. Len(nodes) : nodes[n].compiled # "queued")
    /\ [][ (Len(nodes') = Len(nodes) + 1 /\ videoSession = NoSession) =>
               /\ pictureParametersQueue' = Append(pictureParametersQueue, Len(nodes'))
               /\ objects' = objects
               /\ currentPictureParameters' = currentPictureParameters
               /\ \A n \in 1 .. Len(nodes') : nodes'[n].vkObjectOwner = Null ]_vars
    /\ [][ seqStarts' = seqStarts + 1 =>
               /\ pictureParametersQueue' = pictureParametersQueue
               /\ nodes' = nodes
               /\ objects' = objects
               /\ currentPictureParameters' = currentPictureParameters ]_vars

\* C28 witness: an arrival with a session has flushed, with its own node, nodes that were
\* queued before the session existed and were still queued after the sequence start
C28_Witness ==
    /\ lastOp.op = "UpdatePictureParameters"
    /\ videoSession # NoSession
    /\ lastOp.flushed >= 2
    /\ pictureParametersQueue = << >>

\* C29: in every state no node is owned by an object with an identity greater than the
\* current object's; at every decode submission the picture's PPS node has an owner, a
\* current object exists and the owner's identity is at most the current object's
C29_OwnerNotNewerThanCurrent ==
    /\ \A n \in 1 .. Len(nodes) :
           (nodes[n].vkObjectOwner # Null /\ currentPictureParameters # Null) =>
               objects[nodes[n].vkObjectOwner].m_Id <= objects[currentPictureParameters].m_Id
    /\ (lastOp.op = "DecodePicture" /\ lastOp.submitted) =>
           /\ nodes[lastOp.pps].vkObjectOwner # Null
           /\ lastOp.videoSessionParameters = nodes[lastOp.pps].vkObjectOwner
           /\ currentPictureParameters # Null

\* C29 witness: a submitted decode of a picture whose PPS node is owned by an object older
\* than the current one
C29_Witness ==
    /\ lastOp.op = "DecodePicture"
    /\ lastOp.submitted
    /\ objects[nodes[lastOp.pps].vkObjectOwner].m_Id < objects[currentPictureParameters].m_Id

\* C30: when the hardware call that creates a new object fails while one node is flushed, the
\* current object and the owner of every node are afterwards what they were before
C30_FailedCreationKeepsCurrentAndOwners ==
    [][ ( /\ ArrivalFlushStep
          /\ pictureParametersQueue = << >>
          /\ hwFailures' = hwFailures + 1
          /\ CheckStdObjectBeforeUpdate(currentPictureParameters, nodes'[Len(nodes')]) ) =>
            /\ currentPictureParameters' = currentPictureParameters
            /\ \A n \in 1 .. Len(nodes) : nodes'[n].vkObjectOwner = nodes[n].vkObjectOwner ]_vars

\* the compiled-id set of the object for the kind of the node
IdsUsedFor(object, node) ==
    IF node.itemType = "VPS" THEN object.vpsIdsUsed
    ELSE IF node.itemType = "SPS" THEN object.spsIdsUsed
    ELSE object.ppsIdsUsed

\* C31: whether the hardware calls succeeded or failed, every node that has an owner has its
\* own id marked in the owner's compiled-id set for its kind
C31_OwnerHoldsNodeId ==
    \A n \in 1 .. Len(nodes) :
        nodes[n].vkObjectOwner # Null =>
            nodes[n].id \in IdsUsedFor(objects[nodes[n].vkObjectOwner], nodes[n])

\* C40: a submitted picture gets the counter's value as its decode-order number and the
\* counter then grows by exactly one; no other step changes the counter, so the numbers of
\* the submitted pictures are consecutive across sequence starts and session replacements;
\* a decode rejected for lack of a session takes no number and touches no frame slot and
\* no decoder state
C40_DecodeOrderNumbersConsecutive ==
    [][ /\ decodesOnSession' = decodesOnSession + 1 =>
               /\ lastOp'.submitted
               /\ lastOp'.picNumInDecodeOrder = decodePicCount
               /\ decodePicCount' = decodePicCount + 1
        /\ decodePicCount' # decodePicCount =>
               /\ lastOp'.op = "DecodePicture"
               /\ lastOp'.readOwner
               /\ videoSession # NoSession
        /\ (lastOp'.op = "DecodePicture" /\ videoSession = NoSession /\ lastOp' # lastOp) =>
               /\ lastOp'.ret = -1
               /\ ~lastOp'.submitted
               /\ "commands" \notin DOMAIN lastOp'
               /\ decodePicCount' = decodePicCount
               /\ frameSlots' = frameSlots
               /\ resetDecoder' = resetDecoder
               /\ pictureParametersQueue' = pictureParametersQueue ]_vars

\* C40 witness: the second submitted picture, numbered 1, decoded on a session created after
\* the first picture was submitted
C40_Witness ==
    /\ lastOp.op = "DecodePicture"
    /\ lastOp.submitted
    /\ lastOp.picNumInDecodeOrder = 1
    /\ decodesOnSession = 1
    /\ sessionsCreated = 2

\* C38: for H.265 the surface count never comes from a tier with more DPB buffers than the
\* true picture area width x height allows
C38_TierFromTrueArea ==
    (policyOut # NoResult /\ policyIn.codec = "H265") =>
        policyOut[1] <= ReferencePolicy("H265", policyIn.minNumDecodeSurfaces,
                                        policyIn.width, policyIn.height)

\* C36: a buffer returned by GetBitstreamBuffer, new or reused, has a capacity of at least
\* the requested size and holds all of the initial data
C36_ReturnedBufferFitsRequest ==
    (lastAcquire.op = "GetBitstreamBuffer" /\ lastAcquire.ret > 0) =>
        /\ lastAcquire.ret >= lastAcquire.size
        /\ Len(lastAcquire.data) >= Len(lastAcquire.initData)
        /\ \A k \in 1 .. Len(lastAcquire.initData) : lastAcquire.data[k] = lastAcquire.initData[k]

\* C37: the aligned extent is the smallest multiple of the granularity that is at least the
\* largest of the display size, the coded size and the minimum coded extent
C37_AlignedExtentIsSmallestMultiple ==
    policyOut # NoResult =>
        LET wanted == Max(Max(policyIn.display, policyIn.coded), policyIn.minCoded)
            g == policyIn.granularity
        IN  /\ policyOut[1] % g = 0
            /\ policyOut[1] >= wanted
            /\ policyOut[1] - g < wanted

\* C39: the image barriers written into imageBarriers[] never exceed its capacity
C39_ImageBarriersWithinCapacity ==
    policyOut # NoResult =>
        Len(policyOut[1].imageMemoryBarriers) <= MAX_DPB_REF_AND_SETUP_SLOTS

\* the images the decode uses, with the layout the frame buffer reported for each
ImagesUsed ==
    { CurrentDpbPictureResourceInfo(policyIn) }
        \cup { GopReferenceSlots(policyIn)[resId] : resId \in 1..policyIn.numGopReferenceSlots }

BarriersOf(image) ==
    { b \in 1..Len(policyOut[1].imageMemoryBarriers) :
        policyOut[1].imageMemoryBarriers[b].image = image }

\* C33: the batch holds one bitstream-buffer barrier (host write to decode read), exactly one
\* transition for every image in use that is not in a decode layout (the destination to the
\* decode-destination layout, a reference image to the decode-DPB layout) and none for an
\* image already in a decode layout
C33_OneTransitionPerImageNotInDecodeLayout ==
    policyOut # NoResult =>
        /\ policyOut[1].bufferMemoryBarriers = << BitstreamBufferMemoryBarrier >>
        /\ \A info \in ImagesUsed : info.image # NullImage =>
             IF info.currentImageLayout \in DecodeLayouts
             THEN BarriersOf(info.image) = {}
             ELSE /\ Cardinality(BarriersOf(info.image)) = 1
                  /\ \A b \in BarriersOf(info.image) :
                       policyOut[1].imageMemoryBarriers[b].newLayout =
                           (IF info.image = DestinationImage
                            THEN "VK_IMAGE_LAYOUT_VIDEO_DECODE_DST_KHR"
                            ELSE "VK_IMAGE_LAYOUT_VIDEO_DECODE_DPB_KHR")

\* C32: every decode that reaches the submission flushes the parameter queue, then records the
\* query reset, the begin of the coding scope, the reset control command only when a reset is
\* pending, the barrier batch, begin query, the decode, end query and the end of the coding
\* scope, then, exactly when separate or linear output is enabled, the image copy followed by
\* the transfer-read to host-read barrier in the same command buffer, then ends the recording,
\* and only then submits to the queue
C32_CommandOrder ==
    (lastOp.op = "DecodePicture" /\ lastOp.submitted) =>
        LET copy == useSeparateOutputImages \/ useLinearOutput
            expected ==
                << "FlushPictureParametersQueue", "CmdResetQueryPool", "CmdBeginVideoCodingKHR" >>
                \o (IF lastOp.resetPending THEN << "CmdControlVideoCodingKHR" >> ELSE << >>)
                \o << "CmdPipelineBarrier2KHR", "CmdBeginQuery", "CmdDecodeVideoKHR",
                      "CmdEndQuery", "CmdEndVideoCodingKHR" >>
                \o (IF copy THEN << "CmdCopyImage", "CmdPipelineBarrier" >> ELSE << >>)
                \o << "EndCommandBuffer", "MultiThreadedQueueSubmit" >>
            Named(step) ==
                step \in { "FlushPictureParametersQueue", "CmdResetQueryPool",
                           "CmdBeginVideoCodingKHR", "CmdControlVideoCodingKHR",
                           "CmdPipelineBarrier2KHR", "CmdBeginQuery", "CmdDecodeVideoKHR",
                           "CmdEndQuery", "CmdEndVideoCodingKHR", "CmdCopyImage",
                           "CmdPipelineBarrier", "EndCommandBuffer", "MultiThreadedQueueSubmit" }
            Recorded(step) == step # "FlushPictureParametersQueue" /\ step # "MultiThreadedQueueSubmit"
        IN  /\ SelectSeq(lastOp.steps, Named) = expected
            /\ SelectSeq(lastOp.commands, Named) = SelectSeq(expected, Recorded)
            /\ lastOp.commands[1] = "BeginCommandBuffer"
            /\ lastOp.commands[Len(lastOp.commands)] = "EndCommandBuffer"
            /\ lastOp.copyBarrier =
                   (IF copy THEN << [ srcAccessMask |-> "VK_ACCESS_TRANSFER_READ_BIT",
                                      dstAccessMask |-> "VK_ACCESS_HOST_READ_BIT" ] >>
                    ELSE << >>)

\* a first decode on a new session with linear output only: the reset and the copy are recorded
C32_Witness ==
    /\ lastOp.op = "DecodePicture"
    /\ lastOp.submitted
    /\ lastOp.resetPending
    /\ useLinearOutput
    /\ ~useSeparateOutputImages
    /\ PositionsOf(lastOp.commands, "CmdCopyImage") # {}

\* C34: in every decode that reaches the submission the host waits on the consumer-done fence
\* exactly when no consumer-done semaphore is provided and a fence is; the frame-complete fence
\* is reset and then observed before the submission; the one submission waits on the
\* consumer-done semaphore exactly when one is provided and signals the frame-complete
\* semaphore and the frame-complete fence; and that fence is not signaled when it is submitted
C34_FenceAndSemaphoreProtocol ==
    (lastOp.op = "DecodePicture" /\ lastOp.submitted) =>
        /\ (\E w \in 1 .. Len(lastOp.waits) : lastOp.waits[w].fence = "frameConsumerDoneFence")
               <=> (~lastOp.sync.consumerDoneSemaphore /\ lastOp.sync.consumerDoneFence)
        /\ \E r, g, q \in 1 .. Len(lastOp.steps) :
               /\ r < g /\ g < q
               /\ lastOp.steps[r] = "ResetFences"
               /\ lastOp.steps[g] = "GetFenceStatus"
               /\ lastOp.steps[q] = "MultiThreadedQueueSubmit"
               /\ PositionsOf(lastOp.steps, "EndCommandBuffer") \subseteq 1 .. (r - 1)
        /\ Cardinality(PositionsOf(lastOp.steps, "MultiThreadedQueueSubmit")) = 1
        /\ lastOp.submitInfo.waitSemaphores =
               (IF lastOp.sync.consumerDoneSemaphore THEN << "frameConsumerDoneSemaphore" >>
                ELSE << >>)
        /\ lastOp.submitInfo.signalSemaphores = << "frameCompleteSemaphore" >>
        /\ lastOp.submitInfo.fence = "frameCompleteFence"
        /\ ~lastOp.fenceSignaledAtSubmit

\* C35: every blocking wait of an exposed operation is bounded by the fixed timeout, and an
\* operation whose wait timed out ends as a fatal error: it returns -1 and submits nothing
C35_EveryWaitBoundedAndTimeoutFatal ==
    "waits" \in DOMAIN lastOp =>
        \A w \in 1 .. Len(lastOp.waits) :
            /\ lastOp.waits[w].timeout = gFenceTimeout
            /\ lastOp.waits[w].result = "VK_TIMEOUT" =>
                   (lastOp.ret = -1 /\ ~lastOp.submitted)


====
